---- MODULE Spec2Model ----
(***************************************************************************)
(* A model of climin's Adam minimizer (climin/adam.py).                    *)
(*                                                                         *)
(* Numbers.  The parameter vector has one element.  Numbers are exact      *)
(* rationals <<n, d>> (d > 0, lowest terms); +, -, * and / are exact.  The *)
(* only rounded operation is the square root (x ** 0.5), which is rounded  *)
(* down to a multiple of 1 / SqrtScale, as a floating point square root is *)
(* rounded to a representable number, and the store into the parameter     *)
(* vector (wrt -= step), which is rounded down to a multiple of            *)
(* 1 / WrtScale, as a store into an array of fixed precision is.  A        *)
(* division by zero raises ZeroDivisionError, as it does for Python        *)
(* numbers.                                                                *)
(*                                                                         *)
(* The driver.  A driver constructs minimizer 1 from arbitrary arguments,  *)
(* iterates it, may take a checkpoint of it (its state, a copy of the      *)
(* parameter vector and the rest of the batch sequence), constructs        *)
(* minimizer 2 from the checkpoint and restores the state into it.         *)
(***************************************************************************)
EXTENDS Integers, Sequences, FiniteSets, TLC

\* Bounds of the model.
SqrtScale == 16     \* square roots are rounded down to multiples of 1/SqrtScale
WrtScale == 16      \* the parameter vector holds multiples of 1/WrtScale
MaxArgs == 2        \* longest finite argument source
MaxPulls == 3       \* most descriptors taken from one batch sequence
MaxBatch == 1       \* batch descriptors carry a target in 0..MaxBatch

Ids == {1, 2}

(***************************************************************************)
(* Exact rational arithmetic.                                              *)
(***************************************************************************)
Abs(n) == IF n < 0 THEN -n ELSE n

RECURSIVE GCD(_, _)
GCD(a, b) == IF b = 0 THEN a ELSE GCD(b, a % b)

Norm(n, d) ==
    LET s == IF d < 0 THEN -1 ELSE 1
        g == GCD(Abs(n), Abs(d))
    IN  <<(s * n) \div g, (s * d) \div g>>

Rat(n) == <<n, 1>>
Frac(n, d) == Norm(n, d)

\* The operands are in lowest terms; common factors are cancelled before
\* multiplying, to keep the intermediate integers small.
RAdd(a, b) ==
    LET g == GCD(a[2], b[2])
    IN  Norm(a[1] * (b[2] \div g) + b[1] * (a[2] \div g), (a[2] \div g) * b[2])
RNeg(a) == <<-a[1], a[2]>>
RSub(a, b) == RAdd(a, RNeg(b))
RMul(a, b) ==
    LET g1 == GCD(Abs(a[1]), b[2])
        g2 == GCD(Abs(b[1]), a[2])
    IN  Norm((a[1] \div g1) * (b[1] \div g2), (a[2] \div g2) * (b[2] \div g1))
\* defined for b # 0 only; the callers test for zero first
RDiv(a, b) == RMul(a, IF b[1] < 0 THEN <<-b[2], -b[1]>> ELSE <<b[2], b[1]>>)
RLt(a, b) == a[1] * b[2] < b[1] * a[2]
RLe(a, b) == a[1] * b[2] <= b[1] * a[2]
RIsZero(a) == a[1] = 0
RFloor(a) == a[1] \div a[2]

RECURSIVE RPow(_, _)
RPow(a, n) == IF n = 0 THEN Rat(1) ELSE RMul(a, RPow(a, n - 1))

\* largest r with r * r <= n, for n >= 0
RECURSIVE ISqrtIn(_, _, _)
ISqrtIn(n, lo, hi) ==
    IF lo = hi THEN lo
    ELSE LET mid == (lo + hi + 1) \div 2
         IN  IF mid * mid <= n THEN ISqrtIn(n, mid, hi)
             ELSE ISqrtIn(n, lo, mid - 1)

ISqrt(n) == ISqrtIn(n, 0, n)

\* x ** 0.5 for x >= 0
Sqrt(a) == Norm(ISqrt((a[1] * SqrtScale * SqrtScale) \div a[2]), SqrtScale)

\* quotient and remainder of w * r by d, for w >= 0 and 0 <= r < d,
\* computed without forming the product
RECURSIVE MulDivMod(_, _, _)
MulDivMod(w, r, d) ==
    IF w = 0 THEN <<0, 0>>
    ELSE LET h == MulDivMod(w \div 2, r, d)
             t == 2 * h[2] + (w % 2) * r
         IN  <<2 * h[1] + t \div d, t % d>>

\* the value an element of the parameter vector holds after a store of a:
\* floor(a * WrtScale) / WrtScale
Stored(a) ==
    Norm(WrtScale * (a[1] \div a[2])
            + MulDivMod(WrtScale, a[1] % a[2], a[2])[1],
         WrtScale)

(***************************************************************************)
(* The inputs the driver draws from.                                       *)
(***************************************************************************)
\* decay coefficients offered to the constructor, valid and invalid
Decays1 == {<<-1, 4>>, <<0, 1>>, <<1, 4>>, <<1, 2>>, <<1, 1>>, <<5, 4>>}
Decays2 == {<<-1, 4>>, <<0, 1>>, <<1, 4>>, <<3, 4>>, <<1, 1>>, <<5, 4>>}
StepRates == {<<2, 1>>}
Offsets == {<<1, 4>>}
Wrt0 == {<<0, 1>>}

\* A batch descriptor is the pair (args, kwargs) the argument source yields;
\* args holds one integer target, kwargs is empty.
Descs == {<< <<a>>, <<>> >> : a \in 0..MaxBatch}
EmptyDesc == << <<>>, <<>> >>

RECURSIVE SeqsUpTo(_, _)
SeqsUpTo(S, n) ==
    IF n = 0 THEN {<<>>}
    ELSE LET R == SeqsUpTo(S, n - 1)
         IN  R \cup {Append(r, x) : r \in {q \in R : Len(q) = n - 1}, x \in S}

\* An argument source is an iterator: the descriptors it has yet to yield,
\* followed, when rep is TRUE, by EmptyDesc for ever (itertools.repeat).
ArgSources == {[items |-> q, rep |-> FALSE] : q \in SeqsUpTo(Descs, MaxArgs)}

(***************************************************************************)
(* The gradient function, supplied by the user: the gradient of a          *)
(* piecewise quadratic loss around the batch's target.  It raises on the   *)
(* batch with target 0.                                                    *)
(***************************************************************************)
fprimeRaises(wrt, args, kwargs) == Len(args) > 0 /\ args[1] = 0

fprime(wrt, args, kwargs) ==
    Rat(RFloor(wrt) - (IF Len(args) = 0 THEN 1 ELSE args[1]))

(***************************************************************************)
(* The state.                                                              *)
(***************************************************************************)
VARIABLES
    opt,    \* the attributes of each constructed Adam object
    gen,    \* the iterator the driver holds on each: "none", "running", "finished"
    last,   \* what the driver's latest call did
    hist,   \* history: one record per batch descriptor a minimizer took
    meta,   \* history: how each minimizer was constructed
    ckpt    \* the driver's checkpoint of minimizer 1 (a sequence of 0 or 1)

vars == <<opt, gen, last, hist, meta, ckpt>>

\* state_fields, had it left out decay_mom1_pow
state_fields_without_mom1_pow ==
    <<"n_iter", "step_rate", "decay_mom1", "decay_mom2", "step", "offset",
      "est_mom1_b", "est_mom2_b", "decay_mom2_pow">>

\* state_fields, had it left out est_mom2_b
state_fields_without_est_mom2 ==
    <<"n_iter", "step_rate", "decay_mom1", "decay_mom2", "step", "offset",
      "est_mom1_b", "decay_mom1_pow", "decay_mom2_pow">>

state_fields ==
    <<"n_iter", "step_rate", "decay_mom1", "decay_mom2", "step", "offset",
      "est_mom1_b", "est_mom2_b", "decay_mom1_pow", "decay_mom2_pow">>

FieldSet(fs) == {fs[k] : k \in 1..Len(fs)}

\* Minimizer.state (getter): the values of the state fields
GetState(o) == [f \in FieldSet(state_fields) |-> o[f]]

\* Minimizer.state (setter): overwrites the fields the mapping holds
SetState(o, s) ==
    [f \in DOMAIN o |-> IF f \in DOMAIN s THEN s[f] ELSE o[f]]

\* Minimizer.__init__
Minimizer_init(wrt, args) ==
    [wrt |-> wrt,
     args |-> IF args = <<>> THEN [items |-> <<>>, rep |-> TRUE] ELSE args[1],
     n_iter |-> 0]

(***************************************************************************)
(* Adam.__init__                                                           *)
(***************************************************************************)
InUnit(d) == RLt(Rat(0), d) /\ RLe(d, Rat(1))

\* the denominator, had it been the root of the coefficient itself
StabilityDenominator_of_decay(dm2) == Sqrt(dm2)

StabilityDenominator(dm2) == Sqrt(RSub(Rat(1), dm2))

\* (1 - decay_mom1 * 2) / (1 - decay_mom2) ** 0.5 < 1
StabilityConstraint(dm1, dm2) ==
    RLt(RDiv(RSub(Rat(1), RMul(dm1, Rat(2))), StabilityDenominator(dm2)),
        Rat(1))

StabilityWarning == "constraint from convergence analysis for adam not satisfied"
DecayWarning == "decay parameter no longer has any effect"

AdamFields(b, step_rate, dm1, dm2, momentum, offset) ==
    [wrt |-> b.wrt, args |-> b.args, n_iter |-> b.n_iter,
     step_rate |-> step_rate, decay_mom1 |-> dm1, decay_mom2 |-> dm2,
     offset |-> offset, momentum |-> momentum,
     est_mom1_b |-> Rat(0), est_mom2_b |-> Rat(0),
     decay_mom1_pow |-> Rat(1), decay_mom2_pow |-> Rat(1),
     step |-> Rat(0)]

\* The outcome of the constructor: how it returned, the warnings it
\* emitted, and the object (a sequence of 0 or 1).
Adam_init(wrt, step_rate, decay, dm1, dm2, momentum, offset, args) ==
    IF ~InUnit(dm1) THEN
        [result |-> "ValueError", warnings |-> {}, obj |-> <<>>]
    ELSE IF ~InUnit(dm2) THEN
        [result |-> "ValueError", warnings |-> {}, obj |-> <<>>]
    ELSE IF RIsZero(StabilityDenominator(dm2)) THEN
        [result |-> "ZeroDivisionError", warnings |-> {}, obj |-> <<>>]
    ELSE
        [result |-> "ok",
         warnings |->
            (IF ~StabilityConstraint(dm1, dm2) THEN {StabilityWarning} ELSE {})
            \cup (IF decay # <<>> THEN {DecayWarning} ELSE {}),
         obj |-> <<AdamFields(Minimizer_init(wrt, args),
                              step_rate, dm1, dm2, momentum, offset)>>]

(***************************************************************************)
(* Adam._iterate: the body of the loop, from one batch descriptor to the   *)
(* yield.                                                                  *)
(***************************************************************************)
One == Rat(1)

\* self.decay_mom1_pow *= (1 - dm1); self.decay_mom2_pow *= (1 - dm2)
AdvancePows(o) ==
    [o EXCEPT
        !.decay_mom1_pow = RMul(@, RSub(One, o.decay_mom1)),
        !.decay_mom2_pow = RMul(@, RSub(One, o.decay_mom2))]

\* the biased moment estimates, from the gradient and the previous estimates
UpdateMoments(o, gradient, est_mom1_b_m1, est_mom2_b_m1) ==
    [o EXCEPT
        !.est_mom1_b = RAdd(RMul(o.decay_mom1, gradient),
                            RMul(RSub(One, o.decay_mom1), est_mom1_b_m1)),
        !.est_mom2_b = RAdd(RMul(o.decay_mom2, RMul(gradient, gradient)),
                            RMul(RSub(One, o.decay_mom2), est_mom2_b_m1))]

\* the standard step, had the offset been added under the square root
StandardStep_offset_under_root(o) ==
    LET rate_t == RDiv(RMul(o.step_rate, Sqrt(RSub(One, o.decay_mom2_pow))),
                       RSub(One, o.decay_mom1_pow))
    IN  RDiv(RMul(rate_t, o.est_mom1_b), Sqrt(RAdd(o.est_mom2_b, o.offset)))

\* if not self.momentum
StandardStep(o) ==
    LET rate_t == RDiv(RMul(o.step_rate, Sqrt(RSub(One, o.decay_mom2_pow))),
                       RSub(One, o.decay_mom1_pow))
    IN  RDiv(RMul(rate_t, o.est_mom1_b), RAdd(Sqrt(o.est_mom2_b), o.offset))

\* else (Nesterov step)
NesterovStep(o, gradient) ==
    LET dm1 == o.decay_mom1
        est_mom1 ==
            RAdd(RDiv(RMul(RSub(One, dm1), o.est_mom1_b),
                      RSub(One, RMul(RSub(One, dm1), o.decay_mom1_pow))),
                 RDiv(RMul(dm1, gradient), RSub(One, o.decay_mom1_pow)))
        est_mom2 == RDiv(o.est_mom2_b, RSub(One, o.decay_mom2_pow))
    IN  RDiv(RMul(o.step_rate, est_mom1), RAdd(Sqrt(est_mom2), o.offset))

ComputeStep(o, gradient) ==
    IF ~o.momentum THEN StandardStep(o) ELSE NesterovStep(o, gradient)

\* the update, had it added the step
ApplyStep_adding(o, step) ==
    [o EXCEPT !.wrt = Stored(RAdd(@, step)), !.step = step, !.n_iter = @ + 1]

\* self.wrt -= step; self.step = step; self.n_iter += 1
ApplyStep(o, step) ==
    [o EXCEPT !.wrt = Stored(RSub(@, step)), !.step = step, !.n_iter = @ + 1]

\* the dictionary the generator yields
Report(o, gradient, desc) ==
    [n_iter |-> o.n_iter, gradient |-> gradient,
     args |-> desc[1], kwargs |-> desc[2]]

\* the end of the loop, had it come one descriptor early
SourceExhausted_one_early(src) == Len(src.items) <= 1 /\ ~src.rep

\* for args, kwargs in self.args
SourceExhausted(src) == src.items = <<>> /\ ~src.rep
SourceNext(src) == IF src.items = <<>> THEN EmptyDesc ELSE Head(src.items)
SourceRest(src) ==
    IF src.items = <<>> THEN src ELSE [src EXCEPT !.items = Tail(@)]

\* One resumption of the generator on object o, whose argument source is
\* not exhausted: the object afterwards, whether the gradient function
\* raised, the report yielded, and the calls made to the gradient function.
LoopBody(o) ==
    LET desc == SourceNext(o.args)
        o0 == [o EXCEPT !.args = SourceRest(@)]
        est_mom1_b_m1 == o0.est_mom1_b
        est_mom2_b_m1 == o0.est_mom2_b
        o1 == AdvancePows(o0)
        call == [wrt |-> o1.wrt, args |-> desc[1], kwargs |-> desc[2]]
    IN  IF fprimeRaises(o1.wrt, desc[1], desc[2]) THEN
            [obj |-> o1, raised |-> TRUE, report |-> <<>>, desc |-> desc,
             calls |-> <<call>>]
        ELSE
            LET gradient == fprime(o1.wrt, desc[1], desc[2])
                o2 == UpdateMoments(o1, gradient, est_mom1_b_m1, est_mom2_b_m1)
                o3 == ApplyStep(o2, ComputeStep(o2, gradient))
            IN  [obj |-> o3, raised |-> FALSE,
                 report |-> <<Report(o3, gradient, desc)>>, desc |-> desc,
                 calls |-> <<call>>]

(***************************************************************************)
(* The driver's calls.                                                     *)
(***************************************************************************)
Put(f, i, v) == [j \in DOMAIN f \cup {i} |-> IF j = i THEN v ELSE f[j]]

NoCall == [op |-> "none", id |-> 0, result |-> "ok", warnings |-> {},
           report |-> <<>>, given |-> <<>>]

Init ==
    /\ opt = <<>>
    /\ gen = <<>>
    /\ hist = <<>>
    /\ meta = <<>>
    /\ ckpt = <<>>
    /\ last = NoCall

\* opt_i = Adam(wrt, fprime, step_rate, decay, dm1, dm2, momentum, offset, args)
New(i, wrt, step_rate, decay, dm1, dm2, momentum, offset, args, pos0) ==
    LET r == Adam_init(wrt, step_rate, decay, dm1, dm2, momentum, offset, args)
    IN  /\ last' = [op |-> "construct", id |-> i, result |-> r.result,
                    warnings |-> r.warnings, report |-> <<>>,
                    given |-> <<[step_rate |-> step_rate, decay_mom1 |-> dm1,
                                 decay_mom2 |-> dm2, momentum |-> momentum,
                                 offset |-> offset, wrt |-> wrt]>>]
        /\ IF r.result = "ok"
           THEN /\ opt' = Put(opt, i, r.obj[1])
                /\ gen' = Put(gen, i, "none")
                /\ hist' = Put(hist, i, <<>>)
                /\ meta' = Put(meta, i,
                       [restored |-> FALSE, pos0 |-> pos0, n0 |-> 0,
                        src |-> r.obj[1].args])
           ELSE UNCHANGED <<opt, gen, hist, meta>>
        /\ UNCHANGED ckpt

\* the driver constructs the first minimizer, from any arguments
Construct ==
    /\ last.op = "none"
    /\ \E wrt \in Wrt0, step_rate \in StepRates, dm1 \in Decays1,
          dm2 \in Decays2, momentum \in BOOLEAN, offset \in Offsets,
          decay \in {<<>>, <<One>>},
          args \in {<<>>} \cup {<<a>> : a \in ArgSources} :
            New(1, wrt, step_rate, decay, dm1, dm2, momentum, offset, args, 0)

\* The driver iterates minimizer 1 until it constructs minimizer 2, and
\* minimizer 2 once it has restored the checkpoint into it.
CanIterate(i) ==
    /\ i \in DOMAIN opt
    /\ i = 1 => 2 \notin DOMAIN opt
    /\ i = 2 => meta[i].restored

\* how far into the batch sequence of minimizer 1 minimizer i has come
Pos(i) == meta[i].pos0 + Len(hist[i])

\* the driver keeps the state of minimizer 1, a copy of its parameter
\* vector and the rest of its batch sequence
Checkpoint ==
    /\ CanIterate(1)
    /\ ckpt = <<>>
    /\ ckpt' = <<[state |-> GetState(opt[1]), wrt |-> opt[1].wrt,
                  args |-> opt[1].args, pos |-> Len(hist[1])]>>
    /\ last' = [NoCall EXCEPT !.op = "extract", !.id = 1]
    /\ UNCHANGED <<opt, gen, hist, meta>>

\* the driver constructs a second minimizer on the checkpoint's parameter
\* vector and batch sequence, with the first one's hyperparameters
ConstructFromCheckpoint ==
    /\ ckpt # <<>>
    /\ 2 \notin DOMAIN opt
    /\ \E momentum \in BOOLEAN :
          New(2, ckpt[1].wrt, opt[1].step_rate, <<>>, opt[1].decay_mom1,
              opt[1].decay_mom2, momentum, opt[1].offset, <<ckpt[1].args>>,
              ckpt[1].pos)

\* opt_2.state = the checkpoint's state
Restore ==
    /\ 2 \in DOMAIN opt
    /\ ~meta[2].restored
    /\ hist[2] = <<>>
    /\ opt' = [opt EXCEPT ![2] = SetState(@, ckpt[1].state)]
    /\ meta' = [meta EXCEPT ![2].restored = TRUE,
                            ![2].n0 = opt'[2].n_iter]
    /\ last' = [NoCall EXCEPT !.op = "restore", !.id = 2]
    /\ UNCHANGED <<gen, hist, ckpt>>

\* it = iter(opt_i): a new generator, replacing the one the driver held
Iter(i) ==
    /\ CanIterate(i)
    /\ gen[i] # "running"
    /\ Pos(i) < MaxPulls
    /\ gen' = [gen EXCEPT ![i] = "running"]
    /\ last' = [NoCall EXCEPT !.op = "iter", !.id = i]
    /\ UNCHANGED <<opt, hist, meta, ckpt>>

\* next(it)
Pull(i) ==
    /\ CanIterate(i)
    /\ gen[i] # "none"
    /\ gen[i] = "running" /\ ~SourceExhausted(opt[i].args) => Pos(i) < MaxPulls
    /\ IF gen[i] = "finished" \/ SourceExhausted(opt[i].args)
       THEN /\ gen' = [gen EXCEPT ![i] = "finished"]
            /\ last' = [NoCall EXCEPT !.op = "pull", !.id = i,
                                      !.result = "StopIteration"]
            /\ UNCHANGED <<opt, hist>>
       ELSE LET r == LoopBody(opt[i])
            IN  /\ opt' = [opt EXCEPT ![i] = r.obj]
                /\ gen' = [gen EXCEPT ![i] =
                              IF r.raised THEN "finished" ELSE "running"]
                /\ hist' = [hist EXCEPT ![i] = Append(@,
                              [pre |-> opt[i], post |-> r.obj, desc |-> r.desc,
                               raised |-> r.raised, report |-> r.report,
                               calls |-> r.calls])]
                /\ last' = [NoCall EXCEPT !.op = "pull", !.id = i,
                              !.result = IF r.raised THEN "GradientError"
                                         ELSE "ok",
                              !.report = r.report]
    /\ UNCHANGED <<meta, ckpt>>

Next ==
    \/ Construct
    \/ Checkpoint
    \/ ConstructFromCheckpoint
    \/ Restore
    \/ \E i \in Ids : Iter(i)
    \/ \E i \in Ids : Pull(i)

Spec == Init /\ [][Next]_vars

(***************************************************************************)
(* Helpers of the properties.                                              *)
(***************************************************************************)
Entries(i) == {hist[i][k] : k \in 1..Len(hist[i])}
AllEntries == UNION {Entries(i) : i \in DOMAIN hist}

RECURSIVE ReportsOf(_)
ReportsOf(h) == IF h = <<>> THEN <<>> ELSE Head(h).report \o ReportsOf(Tail(h))

\* the k-th descriptor an argument source yields
SourceAt(src, k) == IF k <= Len(src.items) THEN src.items[k] ELSE EmptyDesc

Built(i) == i \in DOMAIN opt
Constructed == last.op = "construct" /\ last.result = "ok"
Given == last.given[1]

(***************************************************************************)
(* C1.  Construction succeeds for every decay_mom1 and decay_mom2 in       *)
(* (0, 1], the endpoint 1 included, and fails with ValueError, constructing*)
(* nothing, when either is <= 0 or > 1.                                    *)
(***************************************************************************)
C1_ConstructionByDomain ==
    last.op = "construct" =>
        LET ok1 == RLt(Rat(0), Given.decay_mom1) /\ RLe(Given.decay_mom1, Rat(1))
            ok2 == RLt(Rat(0), Given.decay_mom2) /\ RLe(Given.decay_mom2, Rat(1))
        IN  IF ok1 /\ ok2
            THEN last.result = "ok" /\ Built(last.id)
            ELSE last.result = "ValueError" /\ ~Built(last.id)

(***************************************************************************)
(* C2.  A step whose gradient evaluation raises leaves n_iter, the moment  *)
(* estimates, the cumulative decay powers, the last step and the parameter *)
(* vector as they were before the pull, and the gradient is not retried.   *)
(***************************************************************************)
C2_FailedStepTransactional ==
    \A e \in AllEntries :
        e.raised =>
            /\ Len(e.calls) = 1
            /\ e.post.n_iter = e.pre.n_iter
            /\ e.post.est_mom1_b = e.pre.est_mom1_b
            /\ e.post.est_mom2_b = e.pre.est_mom2_b
            /\ e.post.decay_mom1_pow = e.pre.decay_mom1_pow
            /\ e.post.decay_mom2_pow = e.pre.decay_mom2_pow
            /\ e.post.step = e.pre.step
            /\ e.post.wrt = e.pre.wrt

(***************************************************************************)
(* C3.  Checkpoint round trip: a fresh minimizer built with the same       *)
(* construction arguments on the parameter vector of step K, with the      *)
(* state of step K restored into it, on the same continuation of the batch *)
(* sequence, reaches after every further batch the parameter vector the    *)
(* uninterrupted run reached, with the same report.                        *)
(***************************************************************************)
C3_CheckpointRoundTrip ==
    (Built(2) /\ meta[2].restored /\ opt[2].momentum = opt[1].momentum) =>
        \A p \in 1..Len(hist[2]) :
            meta[2].pos0 + p <= Len(hist[1]) =>
                LET a == hist[1][meta[2].pos0 + p]
                    b == hist[2][p]
                IN  /\ b.post.wrt = a.post.wrt
                    /\ b.report = a.report
                    /\ b.raised = a.raised

\* the resumed run has caught up with an uninterrupted run of three steps,
\* one before the checkpoint and two after it
C3_Witness ==
    /\ Built(2) /\ meta[2].restored /\ opt[2].momentum = opt[1].momentum
    /\ meta[2].pos0 = 1
    /\ Len(hist[2]) = 2 /\ Len(hist[1]) = 3
    /\ \A e \in Entries(1) : ~e.raised /\ ~RIsZero(e.post.step)

(***************************************************************************)
(* C4.  In every state the driver can observe, decay_mom1_pow equals       *)
(* (1 - decay_mom1)^n_iter and decay_mom2_pow equals                       *)
(* (1 - decay_mom2)^n_iter.                                                *)
(***************************************************************************)
C4_PowersMatchCounter ==
    \A i \in DOMAIN opt :
        /\ opt[i].decay_mom1_pow =
              RPow(RSub(Rat(1), opt[i].decay_mom1), opt[i].n_iter)
        /\ opt[i].decay_mom2_pow =
              RPow(RSub(Rat(1), opt[i].decay_mom2), opt[i].n_iter)

(***************************************************************************)
(* C5.  Reports are emitted with strictly increasing iteration counters,   *)
(* descriptors are taken from the argument source in its order, and every  *)
(* descriptor taken appears in exactly one report, the reports carrying    *)
(* the descriptors in source order, also when a pull ends in a gradient    *)
(* failure.                                                                *)
(***************************************************************************)
C5_EveryDescriptorReported ==
    \A i \in DOMAIN hist :
        LET reports == ReportsOf(hist[i])
        IN  /\ \A k \in 1..Len(hist[i]) :
                   hist[i][k].desc = SourceAt(meta[i].src, k)
            /\ \A k \in 1..(Len(reports) - 1) :
                   reports[k].n_iter < reports[k + 1].n_iter
            /\ Len(reports) = Len(hist[i])
            /\ \A k \in 1..Len(reports) :
                   /\ reports[k].args = hist[i][k].desc[1]
                   /\ reports[k].kwargs = hist[i][k].desc[2]

(***************************************************************************)
(* C6.  The ten checkpoint fields are sufficient for exact continuation:   *)
(* two pulls that start from equal values of the ten fields, equal         *)
(* parameter vectors and equal remaining batch sequences produce the same  *)
(* step, the same parameter vector and equal values of the ten fields      *)
(* again (so every later pull agrees as well), whatever momentum flag      *)
(* either minimizer was built with.                                        *)
(***************************************************************************)
SameState(a, b) == \A f \in FieldSet(state_fields) : a[f] = b[f]

SameStart(a, b) ==
    /\ SameState(a.pre, b.pre)
    /\ a.pre.wrt = b.pre.wrt
    /\ a.pre.args = b.pre.args

SameOutcome(a, b) ==
    /\ a.post.step = b.post.step
    /\ a.post.wrt = b.post.wrt
    /\ a.raised = b.raised
    /\ SameState(a.post, b.post)

C6_TenFieldsSuffice ==
    \A a \in AllEntries, b \in AllEntries :
        SameStart(a, b) => SameOutcome(a, b)

\* C6 as amended: the same, for two minimizers built with the same
\* momentum flag.
C6_TenFieldsAndMomentumSuffice ==
    \A a \in AllEntries, b \in AllEntries :
        (SameStart(a, b) /\ a.pre.momentum = b.pre.momentum) =>
            SameOutcome(a, b)

\* both minimizers have taken a non-zero step from the checkpointed state
C6_Witness ==
    /\ Built(2) /\ opt[2].momentum = opt[1].momentum
    /\ \E a \in Entries(1), b \in Entries(2) :
          /\ SameStart(a, b)
          /\ a.pre.n_iter >= 1
          /\ ~a.raised /\ ~RIsZero(a.post.step)

(***************************************************************************)
(* C7.  With both decay coefficients in (0, 1], the stability warning is   *)
(* emitted exactly when (1 - 2 * decay_mom1) / sqrt(decay_mom2) < 1 is     *)
(* violated.                                                               *)
(***************************************************************************)
C7_WarningBySqrtOfDecay ==
    Constructed =>
        (StabilityWarning \in last.warnings <=>
            ~RLt(RDiv(RSub(Rat(1), RMul(Rat(2), Given.decay_mom1)),
                      Sqrt(Given.decay_mom2)),
                 Rat(1)))

\* C7 as amended: with decay_mom1 in (0, 1] and decay_mom2 in (0, 1), the
\* warning is emitted exactly when
\* (1 - 2 * decay_mom1) / sqrt(1 - decay_mom2) < 1 is violated, and the
\* minimizer constructed is the same with and without the warning; with
\* decay_mom2 = 1 the test divides by zero and nothing is constructed.
C7_WarningBySqrtOfComplement ==
    (last.op = "construct" /\ InUnit(Given.decay_mom1)
                           /\ InUnit(Given.decay_mom2)) =>
        IF Given.decay_mom2 = Rat(1)
        THEN last.result = "ZeroDivisionError" /\ ~Built(last.id)
        ELSE /\ last.result = "ok"
             /\ StabilityWarning \in last.warnings <=>
                    ~RLt(RSub(Rat(1), RMul(Rat(2), Given.decay_mom1)),
                         Sqrt(RSub(Rat(1), Given.decay_mom2)))
             /\ LET o == opt[last.id]
                IN  /\ o.n_iter = 0 /\ o.wrt = Given.wrt
                    /\ o.step_rate = Given.step_rate
                    /\ o.decay_mom1 = Given.decay_mom1
                    /\ o.decay_mom2 = Given.decay_mom2
                    /\ o.offset = Given.offset
                    /\ o.momentum = Given.momentum
                    /\ o.est_mom1_b = Rat(0) /\ o.est_mom2_b = Rat(0)
                    /\ o.decay_mom1_pow = Rat(1) /\ o.decay_mom2_pow = Rat(1)
                    /\ o.step = Rat(0)

\* a minimizer was constructed and the warning emitted
C7_Witness == Constructed /\ StabilityWarning \in last.warnings

(***************************************************************************)
(* C8.  On a finite argument source of n descriptors, with a gradient      *)
(* function that does not raise, the iteration yields n reports and then   *)
(* ends normally, with n_iter at its starting value plus n; it does not    *)
(* end before the source is exhausted.                                     *)
(***************************************************************************)
C8_FiniteSourceEnds ==
    \A i \in DOMAIN opt :
        (/\ ~meta[i].src.rep
         /\ \A e \in Entries(i) : ~e.raised
         /\ gen[i] = "finished") =>
            /\ Len(ReportsOf(hist[i])) = Len(meta[i].src.items)
            /\ opt[i].n_iter = meta[i].n0 + Len(meta[i].src.items)
            /\ opt[i].args.items = <<>>

\* an iteration over two or more batches has ended
C8_Witness ==
    /\ last.op = "pull" /\ last.result = "StopIteration"
    /\ gen[last.id] = "finished"
    /\ ~meta[last.id].src.rep
    /\ Len(meta[last.id].src.items) >= 2
    /\ \A e \in Entries(last.id) : ~e.raised

(***************************************************************************)
(* C9.  A successful pull takes one descriptor from the argument source,   *)
(* calls the gradient function once, on the parameter vector as it was     *)
(* before the update and with that descriptor's arguments, subtracts the   *)
(* step from the parameter vector, records that step in the step field,    *)
(* increments n_iter by one and reports the new n_iter (1 on the first     *)
(* step of a fresh minimizer), the gradient and the descriptor used.       *)
(***************************************************************************)
C9_OneStepPerPull ==
    \A e \in AllEntries :
        ~e.raised =>
            /\ e.desc = SourceNext(e.pre.args)
            /\ e.post.args = SourceRest(e.pre.args)
            /\ Len(e.calls) = 1
            /\ e.calls[1] = [wrt |-> e.pre.wrt, args |-> e.desc[1],
                             kwargs |-> e.desc[2]]
            /\ e.post.wrt = Stored(RSub(e.pre.wrt, e.post.step))
            /\ e.post.n_iter = e.pre.n_iter + 1
            /\ Len(e.report) = 1
            /\ e.report[1].n_iter = e.post.n_iter
            /\ e.report[1].gradient = fprime(e.pre.wrt, e.desc[1], e.desc[2])
            /\ e.report[1].args = e.desc[1]
            /\ e.report[1].kwargs = e.desc[2]

\* a second step has moved the parameter vector
C9_Witness ==
    \E e \in AllEntries :
        /\ ~e.raised /\ e.pre.n_iter = 1
        /\ ~RIsZero(e.post.step) /\ e.post.wrt # e.pre.wrt

(***************************************************************************)
(* C10.  Bias correction at t = 1: from zero moment estimates and          *)
(* cumulative powers of 1, one step in standard mode with gradient g       *)
(* leaves decay_mom1_pow = 1 - decay_mom1, decay_mom2_pow = 1 - decay_mom2,*)
(* est_mom1_b = decay_mom1 * g, est_mom2_b = decay_mom2 * g^2, and applies *)
(* the step step_rate * sqrt(decay_mom2) / decay_mom1 * (decay_mom1 * g)   *)
(* / (sqrt(decay_mom2 * g^2) + offset).                                    *)
(***************************************************************************)
FreshMoments(o) ==
    /\ o.est_mom1_b = Rat(0) /\ o.est_mom2_b = Rat(0)
    /\ o.decay_mom1_pow = Rat(1) /\ o.decay_mom2_pow = Rat(1)

====
